---- MODULE Spec2Model ----
(***************************************************************************)
(* A model of nap_checks.py: the NAP (Name, Address, Phone) audit script.  *)
(*                                                                         *)
(* A Python str is modelled as a sequence of one-character strings, so     *)
(* <<"a", "b">> is "ab".  A float that the script computes as a quotient   *)
(* of two integers is modelled as the pair <<numerator, denominator>>;     *)
(* comparisons against the literals 0.7, 0.80, 0.85 and 0.95 are done by   *)
(* cross-multiplication, which agrees with IEEE division because the       *)
(* quotient is correctly rounded.                                          *)
(***************************************************************************)
EXTENDS Integers, Sequences, FiniteSets, TLC

VARIABLES
    fn,       \* the helper function under application, "main" for the script
    args,     \* its arguments
    out,      \* the values it returned, in order of application
    df,       \* the input rows read from INPUT_CSV
    api,      \* what the lookup service answers for each row, in order
    index,    \* the number of rows the main loop has processed
    results,  \* the list of output rows
    locals,   \* name_match .. status as left by the last matched row
    pc,       \* "loop", "done", "keyerror"; "idle" when the script is not run
    summary   \* the four counts and the total

vars == <<fn, args, out, df, api, index, results, locals, pc, summary>>

harnessVars == <<fn, args, out>>
batchVars == <<df, api, index, results, locals, pc, summary>>

(***************************************************************************)
(* Characters                                                              *)
(***************************************************************************)
Digits == {"0", "1", "2", "3", "4", "5", "6", "7", "8", "9"}

LowerLetters ==
    {"a", "b", "c", "d", "e", "f", "g", "h", "i", "j", "k", "l", "m",
     "n", "o", "p", "q", "r", "s", "t", "u", "v", "w", "x", "y", "z"}

UpperLetters ==
    {"A", "B", "C", "D", "E", "F", "G", "H", "I", "J", "K", "L", "M",
     "N", "O", "P", "Q", "R", "S", "T", "U", "V", "W", "X", "Y", "Z"}

UpperToLower ==
    [c \in UpperLetters |->
        CASE c = "A" -> "a" [] c = "B" -> "b" [] c = "C" -> "c"
          [] c = "D" -> "d" [] c = "E" -> "e" [] c = "F" -> "f"
          [] c = "G" -> "g" [] c = "H" -> "h" [] c = "I" -> "i"
          [] c = "J" -> "j" [] c = "K" -> "k" [] c = "L" -> "l"
          [] c = "M" -> "m" [] c = "N" -> "n" [] c = "O" -> "o"
          [] c = "P" -> "p" [] c = "Q" -> "q" [] c = "R" -> "r"
          [] c = "S" -> "s" [] c = "T" -> "t" [] c = "U" -> "u"
          [] c = "V" -> "v" [] c = "W" -> "w" [] c = "X" -> "x"
          [] c = "Y" -> "y" [] c = "Z" -> "z"]

\* The whitespace characters of str.split(), str.strip() and the regex \s.
Whitespace == {" ", "\t", "\n"}

\* The regex class \d: decimal digits.
IsDigit(c) == c \in Digits

\* The regex class \w: letters, digits and the underscore.
IsWordChar(c) == c \in Digits \cup LowerLetters \cup UpperLetters \cup {"_"}

IsSpace(c) == c \in Whitespace

\* str.lower(), one character.
LowerChar(c) == IF c \in UpperLetters THEN UpperToLower[c] ELSE c

\* str.lower()
Lower(s) == [i \in 1..Len(s) |-> LowerChar(s[i])]

\* str.strip(): drop leading and trailing whitespace.
RECURSIVE LStrip(_)
LStrip(s) == IF s # <<>> /\ IsSpace(Head(s)) THEN LStrip(Tail(s)) ELSE s

RECURSIVE RStrip(_)
RStrip(s) ==
    IF s # <<>> /\ IsSpace(s[Len(s)])
    THEN RStrip(SubSeq(s, 1, Len(s) - 1))
    ELSE s

Strip(s) == RStrip(LStrip(s))

\* The Python test "x in y" on two strings.
IsSubstring(x, y) ==
    \E i \in 0..(Len(y) - Len(x)) : SubSeq(y, i + 1, i + Len(x)) = x

\* All strings over an alphabet of length at most n.
StringsUpTo(alphabet, n) == UNION {[1..k -> alphabet] : k \in 0..n}

(***************************************************************************)
(* Scores: a float as a pair <<numerator, denominator>>                    *)
(***************************************************************************)
Zero == <<0, 1>>
One == <<1, 1>>

RatGeq(r, s) == r[1] * s[2] >= s[1] * r[2]
RatEq(r, s) == r[1] * s[2] = s[1] * r[2]
RatMax(r, s) == IF RatGeq(s, r) /\ ~RatEq(r, s) THEN s ELSE r

(***************************************************************************)
(* normalize_phone                                                         *)
(***************************************************************************)
PhoneDigits == 10

\* re.sub(r'\D', '', s)
RECURSIVE DigitsOnly(_)
DigitsOnly(s) ==
    IF s = <<>> THEN <<>>
    ELSE IF IsDigit(Head(s)) THEN <<Head(s)>> \o DigitsOnly(Tail(s))
    ELSE DigitsOnly(Tail(s))

\* s[-n:] for n > 0
LastN(s, n) == IF Len(s) > n THEN SubSeq(s, Len(s) - n + 1, Len(s)) ELSE s

\* s[:n]
FirstN(s, n) == IF Len(s) > n THEN SubSeq(s, 1, n) ELSE s

\* The truncation keeping the first 10 digits.
normalize_phone_keep_first(phone) ==
    IF phone = <<>> THEN <<>>
    ELSE LET digits_only == DigitsOnly(phone)
         IN  IF Len(digits_only) > PhoneDigits
             THEN FirstN(digits_only, PhoneDigits)
             ELSE digits_only

normalize_phone(phone) ==
    IF phone = <<>> THEN <<>>
    ELSE LET digits_only == DigitsOnly(phone)
         IN  IF Len(digits_only) > PhoneDigits
             THEN LastN(digits_only, PhoneDigits)
             ELSE digits_only

(***************************************************************************)
(* check_phone_match                                                       *)
(***************************************************************************)
PhoneContainScore == <<9, 10>>

check_phone_match(input_phone, api_phone) ==
    LET norm_input == normalize_phone(input_phone)
        norm_api == normalize_phone(api_phone)
    IN  IF norm_input = <<>> \/ norm_api = <<>> THEN <<FALSE, Zero>>
        ELSE IF norm_input = norm_api THEN <<TRUE, One>>
        ELSE IF IsSubstring(norm_input, norm_api)
                \/ IsSubstring(norm_api, norm_input)
             THEN <<TRUE, PhoneContainScore>>
        ELSE <<FALSE, Zero>>

(***************************************************************************)
(* normalize_text_for_comparison                                           *)
(***************************************************************************)
\* re.sub(r'[^\w\s]', ' ', s)
ReplaceNonWord(s) ==
    [i \in 1..Len(s) |-> IF IsWordChar(s[i]) \/ IsSpace(s[i]) THEN s[i] ELSE " "]

\* str.split(): the maximal runs of non-whitespace characters, in order.
RECURSIVE SplitFrom(_, _, _)
SplitFrom(s, i, word) ==
    IF i > Len(s)
    THEN IF word = <<>> THEN <<>> ELSE <<word>>
    ELSE IF IsSpace(s[i])
         THEN IF word = <<>>
              THEN SplitFrom(s, i + 1, <<>>)
              ELSE <<word>> \o SplitFrom(s, i + 1, <<>>)
         ELSE SplitFrom(s, i + 1, Append(word, s[i]))

Split(s) == SplitFrom(s, 1, <<>>)

\* ' '.join(words)
RECURSIVE JoinWithSpace(_)
JoinWithSpace(words) ==
    IF words = <<>> THEN <<>>
    ELSE IF Len(words) = 1 THEN words[1]
    ELSE words[1] \o <<" ">> \o JoinWithSpace(Tail(words))

normalize_text_for_comparison(text) ==
    IF text = <<>> THEN <<>>
    ELSE JoinWithSpace(Split(ReplaceNonWord(Lower(text))))

(***************************************************************************)
(* difflib.SequenceMatcher(None, a, b).ratio(), for sequences shorter than *)
(* 200 elements (no junk, no "popular" elements).  Indices are Python's:   *)
(* a[i] of the code is a[i + 1] here, and ranges are half-open.            *)
(***************************************************************************)
\* Length of the longest common run starting at a[i] and b[j] inside
\* a[i:ahi] and b[j:bhi].
RECURSIVE RunLength(_, _, _, _, _, _)
RunLength(a, b, i, j, ahi, bhi) ==
    IF i < ahi /\ j < bhi /\ a[i + 1] = b[j + 1]
    THEN 1 + RunLength(a, b, i + 1, j + 1, ahi, bhi)
    ELSE 0

\* find_longest_match(alo, ahi, blo, bhi): the longest matching block
\* <<i, j, k>>; of all the longest, the one that starts earliest in a, and
\* of those the one that starts earliest in b.  <<alo, blo, 0>> if none.
find_longest_match(a, b, alo, ahi, blo, bhi) ==
    LET run == [i \in alo..(ahi - 1), j \in blo..(bhi - 1) |->
                    RunLength(a, b, i, j, ahi, bhi)]
        sizes == {run[i, j] : i \in alo..(ahi - 1), j \in blo..(bhi - 1)}
        bestsize == IF sizes = {} THEN 0
                    ELSE CHOOSE k \in sizes : \A m \in sizes : m <= k
    IN  IF bestsize = 0 THEN <<alo, blo, 0>>
        ELSE LET starts == {i \in alo..(ahi - 1) :
                              \E j \in blo..(bhi - 1) : run[i, j] = bestsize}
                 besti == CHOOSE i \in starts : \A m \in starts : i <= m
                 bstarts == {j \in blo..(bhi - 1) : run[besti, j] = bestsize}
                 bestj == CHOOSE j \in bstarts : \A m \in bstarts : j <= m
             IN  <<besti, bestj, bestsize>>

\* Sum of the sizes of get_matching_blocks() within a[alo:ahi], b[blo:bhi]:
\* the longest block, then the blocks to its left and to its right.
RECURSIVE MatchingSize(_, _, _, _, _, _)
MatchingSize(a, b, alo, ahi, blo, bhi) ==
    LET x == find_longest_match(a, b, alo, ahi, blo, bhi)
        i == x[1]
        j == x[2]
        k == x[3]
    IN  IF k = 0 THEN 0
        ELSE k
             + (IF alo < i /\ blo < j
                THEN MatchingSize(a, b, alo, i, blo, j) ELSE 0)
             + (IF i + k < ahi /\ j + k < bhi
                THEN MatchingSize(a, b, i + k, ahi, j + k, bhi) ELSE 0)

\* ratio(): 2.0 * matches / length, and 1.0 when both sequences are empty.
SequenceMatcherRatio(a, b) ==
    LET length == Len(a) + Len(b)
    IN  IF length = 0 THEN One
        ELSE <<2 * MatchingSize(a, b, 0, Len(a), 0, Len(b)), length>>

(***************************************************************************)
(* similarity_ratio                                                        *)
(***************************************************************************)
\* The guard testing the first argument only.
similarity_ratio_guard_first(a, b) ==
    IF a = <<>> THEN Zero
    ELSE SequenceMatcherRatio(Strip(Lower(a)), Strip(Lower(b)))

similarity_ratio(a, b) ==
    IF a = <<>> \/ b = <<>> THEN Zero
    ELSE SequenceMatcherRatio(Strip(Lower(a)), Strip(Lower(b)))

(***************************************************************************)
(* check_name_match                                                        *)
(***************************************************************************)
NameThreshold == <<80, 100>>

\* The match condition with "and" in place of "or".
check_name_match_and(input_name, api_name) ==
    IF input_name = <<>> \/ api_name = <<>> THEN <<FALSE, Zero>>
    ELSE LET norm_input == normalize_text_for_comparison(input_name)
             norm_api == normalize_text_for_comparison(api_name)
             similarity == similarity_ratio(norm_input, norm_api)
             contains_match == IsSubstring(norm_input, norm_api)
                               \/ IsSubstring(norm_api, norm_input)
         IN  <<RatGeq(similarity, NameThreshold) /\ contains_match, similarity>>

\* The empty-input guard applied to the normalized names.
check_name_match_guard_normalized(input_name, api_name) ==
    LET norm_input == normalize_text_for_comparison(input_name)
        norm_api == normalize_text_for_comparison(api_name)
        similarity == similarity_ratio(norm_input, norm_api)
        contains_match == IsSubstring(norm_input, norm_api)
                          \/ IsSubstring(norm_api, norm_input)
    IN  IF norm_input = <<>> \/ norm_api = <<>> THEN <<FALSE, Zero>>
        ELSE <<RatGeq(similarity, NameThreshold) \/ contains_match, similarity>>

check_name_match(input_name, api_name) ==
    IF input_name = <<>> \/ api_name = <<>> THEN <<FALSE, Zero>>
    ELSE LET norm_input == normalize_text_for_comparison(input_name)
             norm_api == normalize_text_for_comparison(api_name)
             similarity == similarity_ratio(norm_input, norm_api)
             contains_match == IsSubstring(norm_input, norm_api)
                               \/ IsSubstring(norm_api, norm_input)
         IN  <<RatGeq(similarity, NameThreshold) \/ contains_match, similarity>>

(***************************************************************************)
(* check_address_match                                                     *)
(***************************************************************************)
AddressThreshold == <<85, 100>>
ComponentThreshold == <<7, 10>>
KeyPartMinLen == 2

\* The number of input parts longer than 2 characters that occur inside
\* some API part.
\* The count without the test on the length of the part.
KeyMatches_any_length(input_parts, api_parts) ==
    Cardinality({n \in 1..Len(input_parts) :
                    \E m \in 1..Len(api_parts) :
                        IsSubstring(input_parts[n], api_parts[m])})

KeyMatches(input_parts, api_parts) ==
    Cardinality({n \in 1..Len(input_parts) :
                    /\ Len(input_parts[n]) > KeyPartMinLen
                    /\ \E m \in 1..Len(api_parts) :
                          IsSubstring(input_parts[n], api_parts[m])})

check_address_match(input_address, api_address) ==
    IF input_address = <<>> \/ api_address = <<>> THEN <<FALSE, Zero>>
    ELSE LET norm_input == normalize_text_for_comparison(input_address)
             norm_api == normalize_text_for_comparison(api_address)
             similarity == similarity_ratio(norm_input, norm_api)
             input_parts == Split(norm_input)
             api_parts == Split(norm_api)
             key_matches == KeyMatches(input_parts, api_parts)
             total_parts == Len(input_parts)
             component_match_ratio ==
                 IF total_parts > 0 THEN <<key_matches, total_parts>> ELSE Zero
         IN  <<RatGeq(similarity, AddressThreshold)
                  \/ RatGeq(component_match_ratio, ComponentThreshold),
               RatMax(similarity, component_match_ratio)>>

(***************************************************************************)
(* The main loop: status labels                                            *)
(***************************************************************************)
\* "FAIL - No results found"
StatusNoResults ==
    <<"F", "A", "I", "L", " ", "-", " ", "N", "o", " ", "r", "e", "s",
    "u", "l", "t", "s", " ", "f", "o", "u", "n", "d">>

\* "SUCCESS - All NAP data matches"
StatusAllMatch ==
    <<"S", "U", "C", "C", "E", "S", "S", " ", "-", " ", "A", "l", "l",
    " ", "N", "A", "P", " ", "d", "a", "t", "a", " ", "m", "a", "t", "c",
    "h", "e", "s">>

\* "SUCCESS - Name & Address match (Phone missing/different)"
StatusNameAddress ==
    <<"S", "U", "C", "C", "E", "S", "S", " ", "-", " ", "N", "a", "m",
    "e", " ", "&", " ", "A", "d", "d", "r", "e", "s", "s", " ", "m", "a",
    "t", "c", "h", " ", "(", "P", "h", "o", "n", "e", " ", "m", "i", "s",
    "s", "i", "n", "g", "/", "d", "i", "f", "f", "e", "r", "e", "n", "t",
    ")">>

\* "PARTIAL - Name & Phone match (Address different)"
StatusNamePhone ==
    <<"P", "A", "R", "T", "I", "A", "L", " ", "-", " ", "N", "a", "m",
    "e", " ", "&", " ", "P", "h", "o", "n", "e", " ", "m", "a", "t", "c",
    "h", " ", "(", "A", "d", "d", "r", "e", "s", "s", " ", "d", "i", "f",
    "f", "e", "r", "e", "n", "t", ")">>

\* "PARTIAL - Address & Phone match (Name different)"
StatusAddressPhone ==
    <<"P", "A", "R", "T", "I", "A", "L", " ", "-", " ", "A", "d", "d",
    "r", "e", "s", "s", " ", "&", " ", "P", "h", "o", "n", "e", " ", "m",
    "a", "t", "c", "h", " ", "(", "N", "a", "m", "e", " ", "d", "i", "f",
    "f", "e", "r", "e", "n", "t", ")">>

\* "PARTIAL - Only Name matches"
StatusOnlyName ==
    <<"P", "A", "R", "T", "I", "A", "L", " ", "-", " ", "O", "n", "l",
    "y", " ", "N", "a", "m", "e", " ", "m", "a", "t", "c", "h", "e", "s">>

\* "SUCCESS - 95%+ similarity match"
StatusSimilarity ==
    <<"S", "U", "C", "C", "E", "S", "S", " ", "-", " ", "9", "5", "%",
    "+", " ", "s", "i", "m", "i", "l", "a", "r", "i", "t", "y", " ", "m",
    "a", "t", "c", "h">>

\* "FAIL - Significant NAP inconsistencies"
StatusInconsistent ==
    <<"F", "A", "I", "L", " ", "-", " ", "S", "i", "g", "n", "i", "f",
    "i", "c", "a", "n", "t", " ", "N", "A", "P", " ", "i", "n", "c", "o",
    "n", "s", "i", "s", "t", "e", "n", "c", "i", "e", "s">>

\* "ERROR - "
ErrorPrefix ==
    <<"E", "R", "R", "O", "R", " ", "-", " ">>

\* "Yes"
Yes ==
    <<"Y", "e", "s">>

\* "No"
No ==
    <<"N", "o">>

\* "Error"
Error ==
    <<"E", "r", "r", "o", "r">>

\* "SUCCESS"
SUCCESS ==
    <<"S", "U", "C", "C", "E", "S", "S">>

\* "PARTIAL"
PARTIAL ==
    <<"P", "A", "R", "T", "I", "A", "L">>

\* "FAIL"
FAIL ==
    <<"F", "A", "I", "L">>

\* "ERROR"
ERROR ==
    <<"E", "R", "R", "O", "R">>

\* "nan"
NaN ==
    <<"n", "a", "n">>

\* "USA"
USA ==
    <<"U", "S", "A">>

\* ", "
CommaSpace ==
    <<",", " ">>

OverrideThreshold == <<95, 100>>

\* The if/elif chain that determines the overall status.
\* The chain with the similarity override tested first.
OverallStatus_override_first(name_match, address_match, phone_match, name_sim, address_sim, phone_sim) ==
    IF \/ RatGeq(name_sim, OverrideThreshold)
          /\ RatGeq(address_sim, OverrideThreshold)
       \/ RatGeq(name_sim, OverrideThreshold)
          /\ RatGeq(phone_sim, OverrideThreshold)
    THEN StatusSimilarity
    ELSE IF name_match /\ address_match /\ phone_match THEN StatusAllMatch
    ELSE IF name_match /\ address_match THEN StatusNameAddress
    ELSE IF name_match /\ phone_match THEN StatusNamePhone
    ELSE IF address_match /\ phone_match THEN StatusAddressPhone
    ELSE IF name_match THEN StatusOnlyName
    ELSE StatusInconsistent

OverallStatus(name_match, address_match, phone_match, name_sim, address_sim, phone_sim) ==
    IF name_match /\ address_match /\ phone_match THEN StatusAllMatch
    ELSE IF name_match /\ address_match THEN StatusNameAddress
    ELSE IF name_match /\ phone_match THEN StatusNamePhone
    ELSE IF address_match /\ phone_match THEN StatusAddressPhone
    ELSE IF name_match THEN StatusOnlyName
    ELSE IF \/ RatGeq(name_sim, OverrideThreshold)
               /\ RatGeq(address_sim, OverrideThreshold)
            \/ RatGeq(name_sim, OverrideThreshold)
               /\ RatGeq(phone_sim, OverrideThreshold)
         THEN StatusSimilarity
    ELSE StatusInconsistent

(***************************************************************************)
(* round(x, 3), in thousandths.  The result is the nearest thousandth; a   *)
(* value exactly half way is rounded to even when the double holds it      *)
(* exactly (a multiple of 1/32), and otherwise goes to whichever side the  *)
(* double nearest to the quotient lies, which is left open here.           *)
(***************************************************************************)
Round3(r) ==
    LET q == (1000 * r[1]) \div r[2]
        rem == (1000 * r[1]) % r[2]
    IN  IF 2 * rem < r[2] THEN {<<q, 1000>>}
        ELSE IF 2 * rem > r[2] THEN {<<q + 1, 1000>>}
        ELSE IF (32 * r[1]) % r[2] = 0
             THEN {<<IF q % 2 = 0 THEN q ELSE q + 1, 1000>>}
        ELSE {<<q, 1000>>, <<q + 1, 1000>>}

(***************************************************************************)
(* format_full_address and the fields read from a row                      *)
(***************************************************************************)
\* row.get(key, default), as text: str() of a missing cell is "nan".
Get(row, key, default) == IF key \in DOMAIN row THEN row[key] ELSE default

\* ", ".join(components)
RECURSIVE JoinWithComma(_)
JoinWithComma(components) ==
    IF components = <<>> THEN <<>>
    ELSE IF Len(components) = 1 THEN components[1]
    ELSE components[1] \o CommaSpace \o JoinWithComma(Tail(components))

\* The component appended for one column, if any.
Component(row, key, default) ==
    LET value == Strip(Get(row, key, default))
    IN  IF value # <<>> /\ value # NaN THEN <<value>> ELSE <<>>

format_full_address(row) ==
    JoinWithComma(Component(row, "Address", <<>>)
                  \o Component(row, "City", <<>>)
                  \o Component(row, "ZipCode", <<>>)
                  \o Component(row, "Country", USA))

BusinessName(row) == Strip(Get(row, "CompanyName", <<>>))

Phone(row) == Strip(Get(row, "WorkNumber", <<>>))

(***************************************************************************)
(* The rows appended to results                                            *)
(***************************************************************************)
NoResultsRow(row) ==
    [InputBusinessName |-> BusinessName(row),
     InputPhone |-> Phone(row),
     InputAddress |-> format_full_address(row),
     ApiName |-> <<>>, ApiPhone |-> <<>>, ApiAddress |-> <<>>,
     NameMatch |-> No, AddressMatch |-> No, PhoneMatch |-> No,
     NameSimilarity |-> Zero, AddressSimilarity |-> Zero,
     PhoneSimilarity |-> Zero,
     OverallNAPStatus |-> StatusNoResults]

\* The error row written with the fields of the no-results row.
ErrorRow_match_no(row, message) ==
    [InputBusinessName |-> BusinessName(row),
     InputPhone |-> Phone(row),
     InputAddress |-> format_full_address(row),
     ApiName |-> <<>>, ApiPhone |-> <<>>, ApiAddress |-> <<>>,
     NameMatch |-> No, AddressMatch |-> No, PhoneMatch |-> No,
     NameSimilarity |-> Zero, AddressSimilarity |-> Zero,
     PhoneSimilarity |-> Zero,
     OverallNAPStatus |-> ErrorPrefix \o message]

ErrorRow(row, message) ==
    [InputBusinessName |-> BusinessName(row),
     InputPhone |-> Phone(row),
     InputAddress |-> format_full_address(row),
     ApiName |-> <<>>, ApiPhone |-> <<>>, ApiAddress |-> <<>>,
     NameMatch |-> Error, AddressMatch |-> Error, PhoneMatch |-> Error,
     NameSimilarity |-> Zero, AddressSimilarity |-> Zero,
     PhoneSimilarity |-> Zero,
     OverallNAPStatus |-> ErrorPrefix \o message]

YesNo(matched) == IF matched THEN Yes ELSE No

\* The locals of the matching step for one row and one top result.
Matching(row, top) ==
    LET name == check_name_match(BusinessName(row), top.name)
        address == check_address_match(format_full_address(row), top.address)
        phone == check_phone_match(Phone(row), top.phone)
    IN  [set |-> TRUE,
         name_match |-> name[1], name_sim |-> name[2],
         address_match |-> address[1], address_sim |-> address[2],
         phone_match |-> phone[1], phone_sim |-> phone[2],
         status |-> OverallStatus(name[1], address[1], phone[1],
                                  name[2], address[2], phone[2])]

NoLocals ==
    [set |-> FALSE,
     name_match |-> FALSE, name_sim |-> Zero,
     address_match |-> FALSE, address_sim |-> Zero,
     phone_match |-> FALSE, phone_sim |-> Zero,
     status |-> <<>>]

MatchedRows(row, top, m) ==
    {[InputBusinessName |-> BusinessName(row),
      InputPhone |-> Phone(row),
      InputAddress |-> format_full_address(row),
      ApiName |-> top.name, ApiPhone |-> top.phone,
      ApiAddress |-> top.address,
      NameMatch |-> YesNo(m.name_match),
      AddressMatch |-> YesNo(m.address_match),
      PhoneMatch |-> YesNo(m.phone_match),
      NameSimilarity |-> ns, AddressSimilarity |-> as,
      PhoneSimilarity |-> ps,
      OverallNAPStatus |-> m.status] :
        ns \in Round3(m.name_sim), as \in Round3(m.address_sim),
        ps \in Round3(m.phone_sim)}

(***************************************************************************)
(* Summary statistics: str.contains over the status column                 *)
(***************************************************************************)
CountContaining(rows, word) ==
    Cardinality({n \in 1..Len(rows) :
                    IsSubstring(word, rows[n].OverallNAPStatus)})

Summary(rows) ==
    [success_count |-> CountContaining(rows, SUCCESS),
     partial_count |-> CountContaining(rows, PARTIAL),
     fail_count |-> CountContaining(rows, FAIL),
     error_count |-> CountContaining(rows, ERROR),
     total |-> Len(rows)]

NoSummary ==
    [success_count |-> 0, partial_count |-> 0, fail_count |-> 0,
     error_count |-> 0, total |-> 0]

(***************************************************************************)
(* Inputs of the phone functions                                           *)
(***************************************************************************)
MaxPhoneLen == 11
MaxPhonePairLen == 3

PhoneAlphabet == {"1", "2", "-"}

\* "15551234567"
PhoneWithCountryCode ==
    <<"1", "5", "5", "5", "1", "2", "3", "4", "5", "6", "7">>

\* "5551234567x200"
PhoneWithExtension ==
    <<"5", "5", "5", "1", "2", "3", "4", "5", "6", "7", "x", "2", "0", "0">>

\* "555-123-4567"
PhoneDashed ==
    <<"5", "5", "5", "-", "1", "2", "3", "-", "4", "5", "6", "7">>

\* "(555) 123-4567"
PhoneParenthesised ==
    <<"(", "5", "5", "5", ")", " ", "1", "2", "3", "-", "4", "5", "6", "7">>

\* "123-4567 x89"
PhoneShortWithExtension ==
    <<"1", "2", "3", "-", "4", "5", "6", "7", " ", "x", "8", "9">>

\* "1234567"
PhoneShort == <<"1", "2", "3", "4", "5", "6", "7">>

PhoneSamples ==
    {PhoneWithCountryCode, PhoneWithExtension, PhoneDashed,
     PhoneParenthesised, PhoneShortWithExtension, PhoneShort}

PhoneInputs == StringsUpTo(PhoneAlphabet, MaxPhoneLen) \cup PhoneSamples

PhonePairInputs == StringsUpTo(PhoneAlphabet, MaxPhonePairLen) \cup PhoneSamples

(***************************************************************************)
(* Batch variables while only the helper functions are exercised           *)
(***************************************************************************)
BatchIdle ==
    /\ df = <<>>
    /\ api = <<>>
    /\ index = 0
    /\ results = <<>>
    /\ locals = NoLocals
    /\ pc = "idle"
    /\ summary = NoSummary

(***************************************************************************)
(* The phone functions, applied                                            *)
(***************************************************************************)
InitPhone ==
    /\ \/ fn = "normalize_phone" /\ args \in {<<p>> : p \in PhoneInputs}
       \/ fn = "check_phone_match"
          /\ args \in PhonePairInputs \X PhonePairInputs
    /\ out = <<>>
    /\ BatchIdle

Call_normalize_phone ==
    /\ fn = "normalize_phone"
    /\ out = <<>>
    /\ out' = <<normalize_phone(args[1])>>
    /\ UNCHANGED <<fn, args, batchVars>>

\* normalize_phone applied to its own result
Recall_normalize_phone ==
    /\ fn = "normalize_phone"
    /\ Len(out) = 1
    /\ out' = Append(out, normalize_phone(out[1]))
    /\ UNCHANGED <<fn, args, batchVars>>

Call_check_phone_match ==
    /\ fn = "check_phone_match"
    /\ out = <<>>
    /\ out' = <<check_phone_match(args[1], args[2])>>
    /\ UNCHANGED <<fn, args, batchVars>>

NextPhone ==
    \/ Call_normalize_phone
    \/ Recall_normalize_phone
    \/ Call_check_phone_match

SpecPhone == InitPhone /\ [][NextPhone]_vars

(***************************************************************************)
(* normalize_text_for_comparison, applied                                  *)
(***************************************************************************)
MaxTextLen == 4

TextAlphabet == {"a", "B", "7", " ", "\t", ",", "_"}

\* "  ABC  Corp. "
TextPadded ==
    <<" ", " ", "A", "B", "C", " ", " ", "C", "o", "r", "p", ".", " ">>

\* "!!!"
TextPunctuationOnly ==
    <<"!", "!", "!">>

\* "a_b"
TextSnakeCase ==
    <<"a", "_", "b">>

TextSamples == {TextPadded, TextPunctuationOnly, TextSnakeCase}

TextInputs == StringsUpTo(TextAlphabet, MaxTextLen) \cup TextSamples

InitText ==
    /\ fn = "normalize_text_for_comparison"
    /\ args \in {<<t>> : t \in TextInputs}
    /\ out = <<>>
    /\ BatchIdle

Call_normalize_text_for_comparison ==
    /\ fn = "normalize_text_for_comparison"
    /\ out = <<>>
    /\ out' = <<normalize_text_for_comparison(args[1])>>
    /\ UNCHANGED <<fn, args, batchVars>>

NextText == Call_normalize_text_for_comparison

SpecText == InitText /\ [][NextText]_vars

(***************************************************************************)
(* similarity_ratio, applied to a pair and to the swapped pair             *)
(***************************************************************************)
MaxSimLen == 3

SimAlphabet == {"a", "b", "c", " "}

\* "tide"
SimTide ==
    <<"t", "i", "d", "e">>

\* "Diet"
SimDiet ==
    <<"D", "i", "e", "t">>

SimSamples == {SimTide, SimDiet}

SimInputs == StringsUpTo(SimAlphabet, MaxSimLen) \cup SimSamples

InitSim ==
    /\ fn = "similarity_ratio"
    /\ args \in SimInputs \X SimInputs
    /\ out = <<>>
    /\ BatchIdle

Call_similarity_ratio ==
    /\ fn = "similarity_ratio"
    /\ out = <<>>
    /\ out' = <<similarity_ratio(args[1], args[2])>>
    /\ UNCHANGED <<fn, args, batchVars>>

Call_similarity_ratio_swapped ==
    /\ fn = "similarity_ratio"
    /\ Len(out) = 1
    /\ out' = Append(out, similarity_ratio(args[2], args[1]))
    /\ UNCHANGED <<fn, args, batchVars>>

NextSim ==
    \/ Call_similarity_ratio
    \/ Call_similarity_ratio_swapped

SpecSim == InitSim /\ [][NextSim]_vars

(***************************************************************************)
(* check_name_match and check_address_match, applied                       *)
(***************************************************************************)
MaxMatchLen == 3

MatchAlphabet == {"a", "b", " ", ","}

\* "123 Main St, Springfield, 62704, USA"
AddressInputExample ==
    <<"1", "2", "3", " ", "M", "a", "i", "n", " ", "S", "t", ",", " ",
    "S", "p", "r", "i", "n", "g", "f", "i", "e", "l", "d", ",", " ", "6",
    "2", "7", "0", "4", ",", " ", "U", "S", "A">>

\* "123 Main Street, Springfield, IL 62704"
AddressApiExample ==
    <<"1", "2", "3", " ", "M", "a", "i", "n", " ", "S", "t", "r", "e",
    "e", "t", ",", " ", "S", "p", "r", "i", "n", "g", "f", "i", "e", "l",
    "d", ",", " ", "I", "L", " ", "6", "2", "7", "0", "4">>

\* "ABC Corp"
NameInputExample ==
    <<"A", "B", "C", " ", "C", "o", "r", "p">>

\* "ABC Corporation"
NameApiExample ==
    <<"A", "B", "C", " ", "C", "o", "r", "p", "o", "r", "a", "t", "i",
    "o", "n">>

MatchSamples ==
    {AddressInputExample, AddressApiExample, NameInputExample,
     NameApiExample, TextPunctuationOnly}

MatchInputs == StringsUpTo(MatchAlphabet, MaxMatchLen) \cup MatchSamples

InitMatch ==
    /\ fn \in {"check_name_match", "check_address_match"}
    /\ args \in MatchInputs \X MatchInputs
    /\ out = <<>>
    /\ BatchIdle

Call_check_name_match ==
    /\ fn = "check_name_match"
    /\ out = <<>>
    /\ out' = <<check_name_match(args[1], args[2])>>
    /\ UNCHANGED <<fn, args, batchVars>>

Call_check_address_match ==
    /\ fn = "check_address_match"
    /\ out = <<>>
    /\ out' = <<check_address_match(args[1], args[2])>>
    /\ UNCHANGED <<fn, args, batchVars>>

NextMatch ==
    \/ Call_check_name_match
    \/ Call_check_address_match

SpecMatch == InitMatch /\ [][NextMatch]_vars

(***************************************************************************)
(* The main loop: input rows and lookup answers                            *)
(***************************************************************************)
MaxBatch == 2

\* A row of a file without a Country column.
RowAcme ==
    [CompanyName |->
        <<"A", "c", "m", "e", " ", "I", "n", "c">>,
     WorkNumber |->
        <<"5", "5", "5", "1", "2", "3", "4", "5", "6", "7">>,
     Address |->
        <<"1", " ", "A", " ", "S", "t">>,
     City |->
        <<"T", "o", "w", "n">>,
     ZipCode |->
        <<"0", "0", "0", "0", "0">>]

\* A row with a padded name and an empty ZipCode cell.
RowHardware ==
    [CompanyName |->
        <<" ", "S", "p", "r", "i", "n", "g", "f", "i", "e", "l", "d", " ", "H", "a", "r", "d", "w", "a", "r", "e", " ", "C", "o", " ">>,
     WorkNumber |->
        <<"5", "5", "5", "-", "1", "2", "3", "-", "4", "5", "6", "7">>,
     Address |->
        <<"1", "2", " ", "M", "a", "i", "n", " ", "S", "t">>,
     City |->
        <<"S", "p", "r", "i", "n", "g", "f", "i", "e", "l", "d">>,
     ZipCode |->
        <<"n", "a", "n">>,
     Country |->
        <<"U", "S", "A">>]

\* A row whose name is punctuation only and whose other cells are empty.
RowPunctuation ==
    [CompanyName |->
        <<"-", "-", "-">>,
     WorkNumber |->
        <<"n", "a", "n">>,
     Address |->
        <<"n", "a", "n">>,
     City |->
        <<"n", "a", "n">>,
     ZipCode |->
        <<"n", "a", "n">>,
     Country |->
        <<"n", "a", "n">>]

InputRows == {RowAcme, RowHardware, RowPunctuation}

\* "timeout"
MessageTimeout ==
    <<"t", "i", "m", "e", "o", "u", "t">>

\* "CERTIFICATE_VERIFY_FAILED"
MessageCertificate ==
    <<"C", "E", "R", "T", "I", "F", "I", "C", "A", "T", "E", "_", "V",
    "E", "R", "I", "F", "Y", "_", "F", "A", "I", "L", "E", "D">>

Answer(kind, name, phone, address, message) ==
    [kind |-> kind, name |-> name, phone |-> phone, address |-> address,
     message |-> message]

\* places() returns no results.
AnswerNone == Answer("none", <<>>, <<>>, <<>>, <<>>)

\* places() raises.
AnswerSearchError == Answer("search_error", <<>>, <<>>, <<>>, MessageTimeout)

\* place() raises after places() returned a top result.
AnswerDetailError ==
    Answer("detail_error", <<>>, <<>>, <<>>, MessageCertificate)

AnswerSame ==
    Answer("found",
        <<"A", "c", "m", "e", " ", "I", "n", "c">>,
        <<"(", "5", "5", "5", ")", " ", "1", "2", "3", "-", "4", "5", "6",
          "7">>,
        <<"1", " ", "A", " ", "S", "t", "r", "e", "e", "t", ",", " ", "T",
          "o", "w", "n", ",", " ", "0", "0", "0", "0", "0", ",", " ", "U",
          "S", "A">>,
        <<>>)

AnswerTypo ==
    Answer("found",
        <<"S", "p", "r", "i", "n", "g", "f", "e", "l", "d", " ", "H", "a",
          "r", "d", "w", "a", "r", "e", " ", "C", "o">>,
        <<"(", "5", "5", "5", ")", " ", "1", "2", "3", "-", "4", "5", "6",
          "7">>,
        <<"9", " ", "E", "l", "m", " ", "R", "o", "a", "d", ",", " ", "S",
          "h", "e", "l", "b", "y", "v", "i", "l", "l", "e">>,
        <<>>)

\* A top result without name, phone and address.
AnswerEmpty == Answer("found", <<>>, <<>>, <<>>, <<>>)

AnswerOther ==
    Answer("found",
        <<"Z", "e", "n", "i", "t", "h", " ", "L", "L", "C">>,
        <<"+", "1", " ", "5", "5", "5", "-", "1", "2", "3", "-", "4", "5",
          "6", "7">>,
        <<"1", " ", "A", " ", "S", "t", ",", " ", "T", "o", "w", "n", ",",
          " ", "0", "0", "0", "0", "0", ",", " ", "U", "S", "A">>,
        <<>>)

AnswerNoPhone ==
    Answer("found",
        <<"A", "c", "m", "e", " ", "I", "n", "c", "o", "r", "p", "o", "r",
          "a", "t", "e", "d">>,
        <<>>,
        <<"1", " ", "A", " ", "S", "t", ",", " ", "T", "o", "w", "n", " ",
          "0", "0", "0", "0", "0">>,
        <<>>)

Answers ==
    {AnswerNone, AnswerSearchError, AnswerDetailError, AnswerSame,
     AnswerTypo, AnswerEmpty, AnswerOther, AnswerNoPhone}

FoundAnswers == {a \in Answers : a.kind = "found"}

\* The matching step, tabulated once over the rows and the top results.
MatchingOf ==
    [row \in InputRows, top \in FoundAnswers |-> Matching(row, top)]

(***************************************************************************)
(* The main loop                                                           *)
(***************************************************************************)
InitBatch ==
    /\ fn = "main"
    /\ args = <<>>
    /\ out = <<>>
    /\ \E n \in 0..MaxBatch :
          /\ df \in [1..n -> InputRows]
          /\ api \in [1..n -> Answers]
    /\ index = 0
    /\ results = <<>>
    /\ locals = NoLocals
    /\ pc = "loop"
    /\ summary = NoSummary

InLoop == pc = "loop" /\ index < Len(df)

\* gmaps.places raises: the except branch appends the error row.
SearchRaises ==
    /\ InLoop
    /\ api[index + 1].kind = "search_error"
    /\ results' = Append(results, ErrorRow(df[index + 1], api[index + 1].message))
    /\ index' = index + 1
    /\ UNCHANGED <<harnessVars, df, api, locals, pc, summary>>

\* places_result['results'] is empty: the row is appended, then continue.
NoResults ==
    /\ InLoop
    /\ api[index + 1].kind = "none"
    /\ results' = Append(results, NoResultsRow(df[index + 1]))
    /\ index' = index + 1
    /\ UNCHANGED <<harnessVars, df, api, locals, pc, summary>>

\* gmaps.place raises: the except branch appends the error row.
DetailRaises ==
    /\ InLoop
    /\ api[index + 1].kind = "detail_error"
    /\ results' = Append(results, ErrorRow(df[index + 1], api[index + 1].message))
    /\ index' = index + 1
    /\ UNCHANGED <<harnessVars, df, api, locals, pc, summary>>

\* A top result with its details: the three checks, the status, the row.
Matched ==
    /\ InLoop
    /\ api[index + 1].kind = "found"
    /\ locals' = MatchingOf[df[index + 1], api[index + 1]]
    /\ \E r \in MatchedRows(df[index + 1], api[index + 1], locals') :
          results' = Append(results, r)
    /\ index' = index + 1
    /\ UNCHANGED <<harnessVars, df, api, pc, summary>>

\* After the loop: the counts over the status column.
Summarize ==
    /\ pc = "loop"
    /\ index = Len(df)
    /\ results # <<>>
    /\ summary' = Summary(results)
    /\ pc' = "done"
    /\ UNCHANGED <<harnessVars, df, api, index, results, locals>>

\* After a loop over no rows the frame has no status column: KeyError.
SummarizeEmpty ==
    /\ pc = "loop"
    /\ index = Len(df)
    /\ results = <<>>
    /\ pc' = "keyerror"
    /\ UNCHANGED <<harnessVars, df, api, index, results, locals, summary>>

NextBatch ==
    \/ SearchRaises
    \/ NoResults
    \/ DetailRaises
    \/ Matched
    \/ Summarize
    \/ SummarizeEmpty

SpecBatch == InitBatch /\ [][NextBatch]_vars

\* The script runs to its end: no step of it waits on anything.
FairSpecBatch == SpecBatch /\ WF_vars(NextBatch)

(***************************************************************************)
(* C8: normalize_phone is idempotent, and its result is made of digits     *)
(* only and is at most 10 long: the last 10 digits of the input when the   *)
(* input has more than 10 digits, all of its digits otherwise, and the     *)
(* empty string for the empty input.                                       *)
(***************************************************************************)
C8_PhoneIdempotentBounded ==
    fn = "normalize_phone" =>
        /\ Len(out) >= 1 =>
              LET d == DigitsOnly(args[1])
              IN  /\ \A i \in 1..Len(out[1]) : IsDigit(out[1][i])
                  /\ Len(out[1]) <= PhoneDigits
                  /\ Len(d) <= PhoneDigits => out[1] = d
                  /\ Len(d) > PhoneDigits =>
                        /\ Len(out[1]) = PhoneDigits
                        /\ \A i \in 1..PhoneDigits :
                              out[1][i] = d[Len(d) - PhoneDigits + i]
                  /\ args[1] = <<>> => out[1] = <<>>
        /\ Len(out) = 2 => out[2] = out[1]

\* normalize_phone has been applied twice to an input of more than 10
\* digits with separators, and the truncation changed the digit string.
C8_Witness ==
    /\ fn = "normalize_phone"
    /\ Len(out) = 2
    /\ Len(DigitsOnly(args[1])) > PhoneDigits
    /\ out[1] # FirstN(DigitsOnly(args[1]), PhoneDigits)

(***************************************************************************)
(* C3: check_phone_match("15551234567", "5551234567x200") returns          *)
(* (True, 0.9): a number and the same number with a country prefix and an  *)
(* extension suffix are a containment match.                               *)
(***************************************************************************)
C3_ExtensionIsContainmentMatch ==
    (/\ fn = "check_phone_match"
     /\ args = <<PhoneWithCountryCode, PhoneWithExtension>>
     /\ out # <<>>)
        => out[1] = <<TRUE, PhoneContainScore>>

(***************************************************************************)
(* C6: the result of normalize_text_for_comparison is made only of         *)
(* lowercase letters, digits and single spaces, has no leading or trailing *)
(* space and no two adjacent spaces, and is empty for the empty input.     *)
(***************************************************************************)
C6_OnlyLowercaseAlnumAndSingleSpaces ==
    (fn = "normalize_text_for_comparison" /\ out # <<>>) =>
        LET r == out[1]
        IN  /\ \A i \in 1..Len(r) : r[i] \in LowerLetters \cup Digits \cup {" "}
            /\ r # <<>> => r[1] # " " /\ r[Len(r)] # " "
            /\ \A i \in 1..(Len(r) - 1) : ~(r[i] = " " /\ r[i + 1] = " ")
            /\ args[1] = <<>> => r = <<>>

(***************************************************************************)
(* C5 as stated: similarity_ratio(a, b) equals similarity_ratio(b, a) for  *)
(* all strings a and b.                                                    *)
(***************************************************************************)
C5_Symmetric ==
    (fn = "similarity_ratio" /\ Len(out) = 2) => RatEq(out[1], out[2])

(***************************************************************************)
(* C5 as amended: similarity_ratio(a, b) and similarity_ratio(b, a) both   *)
(* lie in [0, 1], and one is 0.0 exactly when the other is; they need not  *)
(* be equal.                                                               *)
(***************************************************************************)
InUnitInterval(r) == r[2] > 0 /\ 0 <= r[1] /\ r[1] <= r[2]

C5_ZeroTogetherAndBounded ==
    (fn = "similarity_ratio" /\ Len(out) = 2) =>
        /\ InUnitInterval(out[1])
        /\ InUnitInterval(out[2])
        /\ out[1][1] = 0 <=> out[2][1] = 0

\* Both orders have been computed for a pair on which they differ.
C5_Witness ==
    /\ fn = "similarity_ratio"
    /\ Len(out) = 2
    /\ ~RatEq(out[1], out[2])
    /\ out[1][1] > 0

(***************************************************************************)
(* C4 as stated: check_address_match("123 Main St, Springfield, 62704,     *)
(* USA", "123 Main Street, Springfield, IL 62704") returns matched = True. *)
(***************************************************************************)
C4_AddressExampleMatches ==
    (/\ fn = "check_address_match"
     /\ args = <<AddressInputExample, AddressApiExample>>
     /\ out # <<>>)
        => out[1][1] = TRUE

(***************************************************************************)
(* C4 as amended: on that pair check_address_match returns matched =       *)
(* False with score 58/69: the key-component ratio is 4/6, below 0.7, and  *)
(* the whole-string similarity is 58/69, below 0.85.  On every pair, a     *)
(* match implies a score of at least 0.7.                                  *)
(***************************************************************************)
C4_AddressExampleDoesNotMatch ==
    (fn = "check_address_match" /\ out # <<>>) =>
        /\ out[1][1] => RatGeq(out[1][2], ComponentThreshold)
        /\ args = <<AddressInputExample, AddressApiExample>> =>
              /\ out[1][1] = FALSE
              /\ RatEq(out[1][2], <<58, 69>>)
              /\ KeyMatches(Split(normalize_text_for_comparison(args[1])),
                            Split(normalize_text_for_comparison(args[2]))) = 4
              /\ Len(Split(normalize_text_for_comparison(args[1]))) = 6

\* check_address_match has been applied to the pair of the example.
C4_Witness ==
    /\ fn = "check_address_match"
    /\ args = <<AddressInputExample, AddressApiExample>>
    /\ out # <<>>
    /\ ~RatGeq(out[1][2], AddressThreshold)

(***************************************************************************)
(* C1: for a row with a lookup result the status is the label of the first *)
(* applicable rule, a function of the three match outcomes and the three   *)
(* scores; when all three fields match and the 0.95 override condition     *)
(* holds too, the label is 'SUCCESS - All NAP data matches'.               *)
(***************************************************************************)
OverrideCondition(m) ==
    /\ RatGeq(m.name_sim, OverrideThreshold)
    /\ \/ RatGeq(m.address_sim, OverrideThreshold)
       \/ RatGeq(m.phone_sim, OverrideThreshold)

\* The label the rules give, each rule written with the negation of the
\* rules before it.
RuleLabel(n, a, p, override) ==
    CASE n /\ a /\ p -> StatusAllMatch
      [] n /\ a /\ ~p -> StatusNameAddress
      [] n /\ ~a /\ p -> StatusNamePhone
      [] ~n /\ a /\ p -> StatusAddressPhone
      [] n /\ ~a /\ ~p -> StatusOnlyName
      [] ~n /\ ~(a /\ p) /\ override -> StatusSimilarity
      [] ~n /\ ~(a /\ p) /\ ~override -> StatusInconsistent

C1_FirstApplicableRule ==
    /\ locals.set =>
          /\ locals.status =
                RuleLabel(locals.name_match, locals.address_match,
                          locals.phone_match, OverrideCondition(locals))
          /\ (/\ locals.name_match
              /\ locals.address_match
              /\ locals.phone_match
              /\ OverrideCondition(locals)) => locals.status = StatusAllMatch
    /\ \A i \in 1..Len(results) :
          api[i].kind = "found" =>
              LET r == results[i]
              IN  \E override \in BOOLEAN :
                      r.OverallNAPStatus =
                          RuleLabel(r.NameMatch = Yes, r.AddressMatch = Yes,
                                    r.PhoneMatch = Yes, override)

\* A row on which all three fields matched and the override condition held.
C1_Witness ==
    /\ locals.set
    /\ locals.name_match /\ locals.address_match /\ locals.phone_match
    /\ OverrideCondition(locals)
    /\ results # <<>>
    /\ results[Len(results)].OverallNAPStatus = StatusAllMatch

(***************************************************************************)
(* C2: whatever the lookups answer, the loop ends with exactly one row per *)
(* input row, in input order; a row whose lookup raised has the status     *)
(* 'ERROR - <message>', 'Error' in the three match fields, 0.0 in the      *)
(* three scores and empty API fields; rows already written never change.   *)
(***************************************************************************)
IsErrorKind(kind) == kind \in {"search_error", "detail_error"}

RowsFollowInput ==
    /\ Len(results) = index
    /\ index <= Len(df)
    /\ pc # "loop" => Len(results) = Len(df)
    /\ \A i \in 1..Len(results) :
          LET r == results[i]
          IN  /\ r.InputBusinessName = BusinessName(df[i])
              /\ r.InputPhone = Phone(df[i])
              /\ r.InputAddress = format_full_address(df[i])
              /\ IsErrorKind(api[i].kind) <=> r.NameMatch = Error
              /\ IsErrorKind(api[i].kind) =>
                    /\ r.OverallNAPStatus = ErrorPrefix \o api[i].message
                    /\ r.AddressMatch = Error /\ r.PhoneMatch = Error
                    /\ r.NameSimilarity = Zero
                    /\ r.AddressSimilarity = Zero
                    /\ r.PhoneSimilarity = Zero
                    /\ r.ApiName = <<>> /\ r.ApiPhone = <<>>
                    /\ r.ApiAddress = <<>>
              /\ api[i].kind = "found" =>
                    /\ r.ApiName = api[i].name
                    /\ r.NameMatch \in {Yes, No}

RowsOnlyAppended ==
    /\ Len(results') >= Len(results)
    /\ SubSeq(results', 1, Len(results)) = results

C2_OneRowPerRecord ==
    /\ []RowsFollowInput
    /\ [][RowsOnlyAppended]_vars
    /\ <>(pc # "loop")

\* The batch has ended with an error row followed by a matched row.
C2_Witness ==
    /\ pc = "done"
    /\ Len(df) = 2
    /\ api[1].kind = "detail_error"
    /\ api[2].kind = "found"
    /\ results[1].NameMatch = Error
    /\ results[2].NameMatch = Yes

(***************************************************************************)
(* C7: after the batch every row is counted in exactly one of the four     *)
(* counters, the one named by the leading word of its status, so the four  *)
(* counts add up to the total.                                             *)
(***************************************************************************)
LeadingWord(status) == Split(status)[1]

CountLeading(rows, word) ==
    Cardinality({n \in 1..Len(rows) : LeadingWord(rows[n].OverallNAPStatus) = word})

C7_CountsPartitionRows ==
    pc = "done" =>
        /\ summary.success_count + summary.partial_count
              + summary.fail_count + summary.error_count = summary.total
        /\ summary.success_count = CountLeading(results, SUCCESS)
        /\ summary.partial_count = CountLeading(results, PARTIAL)
        /\ summary.fail_count = CountLeading(results, FAIL)
        /\ summary.error_count = CountLeading(results, ERROR)
        /\ summary.total = Len(df)

(***************************************************************************)
(* C9: 'SUCCESS - 95%+ similarity match' is never emitted: a name score of *)
(* at least 0.95 implies a name match, an address score of at least 0.95   *)
(* an address match, a phone score of at least 0.95 a phone match.         *)
(***************************************************************************)
C9_OverrideNeverEmitted ==
    /\ \A i \in 1..Len(results) :
          results[i].OverallNAPStatus # StatusSimilarity
    /\ locals.set =>
          /\ locals.status # StatusSimilarity
          /\ RatGeq(locals.name_sim, OverrideThreshold) => locals.name_match
          /\ RatGeq(locals.address_sim, OverrideThreshold)
                => locals.address_match
          /\ RatGeq(locals.phone_sim, OverrideThreshold) => locals.phone_match

\* A row on which the override condition held with the address unmatched.
C9_Witness ==
    /\ locals.set
    /\ OverrideCondition(locals)
    /\ ~locals.address_match
    /\ ~RatEq(locals.name_sim, One)
    /\ results[Len(results)].OverallNAPStatus = StatusNamePhone

(***************************************************************************)
(* C10: a name that is not empty but normalizes to the empty string        *)
(* matches any non-empty API name with similarity 0.0, and the row is      *)
(* classified with one of the labels of a matched name.                    *)
(***************************************************************************)
NameMatchedLabels ==
    {StatusAllMatch, StatusNameAddress, StatusNamePhone, StatusOnlyName}

C10_EmptyNormalizedNameMatches ==
    \A i \in 1..Len(results) :
        (/\ api[i].kind = "found"
         /\ api[i].name # <<>>
         /\ BusinessName(df[i]) # <<>>
         /\ normalize_text_for_comparison(BusinessName(df[i])) = <<>>)
            => /\ results[i].NameMatch = Yes
               /\ RatEq(results[i].NameSimilarity, Zero)
               /\ results[i].OverallNAPStatus \in NameMatchedLabels
               /\ i = Len(results) =>
                     /\ locals.name_match
                     /\ locals.name_sim = Zero

\* A punctuation-only name has been matched against a non-empty API name.
C10_Witness ==
    /\ results # <<>>
    /\ api[Len(results)].kind = "found"
    /\ api[Len(results)].name # <<>>
    /\ df[Len(results)] = RowPunctuation
    /\ results[Len(results)].OverallNAPStatus = StatusOnlyName
    /\ RatEq(results[Len(results)].NameSimilarity, Zero)

====
